---------------------------- MODULE Spec2Model ----------------------------
(***************************************************************************)
(* A model of src/main.py: PasswordGenerator.generate (validation, the     *)
(* pool cache, coverage draws, fill draws, the shuffle), and the scoring   *)
(* function PasswordGenerator.calculate_strength.                          *)
(*                                                                         *)
(* A character is a one-character string, a password a sequence of them.   *)
(* Strings of the source that hold non-ASCII characters are written in     *)
(* ASCII here (the emoji that end the strength labels are left out).       *)
(***************************************************************************)
EXTENDS Integers, Sequences, FiniteSets, TLC

(***************************************************************************)
(* Python's string constants (string.ascii_uppercase, ...), as sequences.  *)
(***************************************************************************)
ascii_uppercase ==
  <<
      "A", "B", "C", "D", "E", "F", "G", "H", "I", "J", "K", "L", "M", "N",
      "O", "P", "Q", "R", "S", "T", "U", "V", "W", "X", "Y", "Z" >>

ascii_lowercase ==
  <<
      "a", "b", "c", "d", "e", "f", "g", "h", "i", "j", "k", "l", "m", "n",
      "o", "p", "q", "r", "s", "t", "u", "v", "w", "x", "y", "z" >>

digits ==
  <<
      "0", "1", "2", "3", "4", "5", "6", "7", "8", "9" >>

(* string.punctuation, 32 characters. The grave accent (chr 96) cannot be     *)
(* written in a string of this language; the token "GRAVE" stands for it.   *)
punctuation ==
  <<
      "!", "\"", "#", "$", "%", "&", "'", "(", ")", "*", "+", ",", "-", ".",
      "/", ":", ";", "<", "=", ">", "?", "@", "[", "\\", "]", "^", "_", "GRAVE",
      "{", "|", "}", "~" >>

Range(s) == {s[n] : n \in 1..Len(s)}

Min(a, b) == IF a <= b THEN a ELSE b

(***************************************************************************)
(* class CharType(Enum): the five members in definition order, and the     *)
(* chars field of each.                                                    *)
(***************************************************************************)
CharTypeMembers == <<"UPPERCASE", "LOWERCASE", "DIGITS", "SPECIAL", "WHITESPACE">>

CharType == Range(CharTypeMembers)

chars(ct) ==
  CASE ct = "UPPERCASE"  -> ascii_uppercase
    [] ct = "LOWERCASE"  -> ascii_lowercase
    [] ct = "DIGITS"     -> digits
    [] ct = "SPECIAL"    -> punctuation
    [] ct = "WHITESPACE" -> <<" ">>

(* PasswordGenerator.MIN_LENGTH, MAX_LENGTH *)
MIN_LENGTH == 8

MAX_LENGTH == 100

(***************************************************************************)
(* Bounds of the model.                                                    *)
(*   TapeLen: the random source is read as a stream of period TapeLen      *)
(*   whose entries are the levels 0..TapeLen of a uniform draw.            *)
(***************************************************************************)
TapeLen == 2

None == "None"

(* The lengths a caller passes: around both limits, and zero and below.    *)
LengthInputs ==
  {-1, 0, MIN_LENGTH - 1, MIN_LENGTH, MIN_LENGTH + 1,
   MAX_LENGTH, MAX_LENGTH + 1}

Tapes == [1..TapeLen -> 0..TapeLen]

(***************************************************************************)
(* The order in which a Python set of CharType members is iterated. It is  *)
(* fixed by the members' hashes for the life of the process; two orders    *)
(* are modelled, the definition order and its reverse.                     *)
(***************************************************************************)
Reverse(s) == [n \in 1..Len(s) |-> s[Len(s) + 1 - n]]

HashOrders == {CharTypeMembers, Reverse(CharTypeMembers)}

VARIABLES
  hashOrder,        \* iteration order of the set char_types of the call
  cache,            \* PasswordGenerator._char_pool_cache
  pc,               \* where the generate call stands
  length,           \* argument length of the call
  char_types,       \* argument char_types of the call
  char_pool,        \* local char_pool
  char_types_list,  \* local char_types_list
  password,         \* local password (a list of characters)
  remaining,        \* local remaining
  filled,           \* items the fill generator has produced so far
  i,                \* index of the shuffle loop
  result,           \* the returned string, None before a return
  error,            \* the message of the raised exception, None if none
  urandom,          \* the stream the operating system's source supplies
  rpos,             \* next entry of the stream
  draws,            \* reads of a random source made by this call
  failed,           \* the random source has raised during this call
  sources,          \* the generators this call has read from
  drawn,            \* the list as it stood when the shuffle began
  text,             \* argument password of calculate_strength
  scored,           \* what calculate_strength returned, None before
  entropy,          \* what calculate_entropy returned: <<hundredths of a
                    \* bit>>, None before
  charset_size,     \* local charset_size of calculate_entropy
  memo,             \* what the first scoring of a string returned
  threads,          \* the frames of generate calls running in threads
  length_var,       \* PasswordGeneratorGUI.length_var
  char_vars,        \* the CharType whose checkbox variable is set
  password_history, \* PasswordGeneratorGUI.password_history
  current_password, \* PasswordGeneratorGUI.current_password
  password_text,    \* the content of the widget password_text
  copy_button,      \* the state of the widget copy_button
  save_button,      \* the state of the widget save_button
  clear_button,     \* the state of the widget clear_button
  stats_label,      \* the number the widget stats_label shows
  theme,            \* PasswordGeneratorGUI.theme.name
  now,              \* what datetime.now() returns next
  file,             \* the password the last save wrote, None before
  event,            \* how the last handler of the GUI ended
  preset,           \* the preset whose settings are in force, None if none
  log,              \* every entry generated in the GUI, oldest first
  hidden_saves      \* 1 once a save wrote a password not displayed, else 0

genvars ==
  <<hashOrder, cache, pc, length, char_types, char_pool, char_types_list,
    password, remaining, filled, i, result, error, urandom, rpos, draws,
    failed, sources, drawn, threads>>

scorevars == <<text, scored, entropy, charset_size, memo>>

guivars ==
  <<length_var, char_vars, password_history, current_password,
    password_text, copy_button, save_button, clear_button, stats_label,
    theme, now, file, event, preset, log, hidden_saves>>

vars == <<genvars, scorevars, guivars>>

(***************************************************************************)
(* Helpers of generate.                                                    *)
(***************************************************************************)
RECURSIVE Join(_)
(* ''.join(seq of strings), each string a sequence of characters *)
Join(ss) == IF ss = <<>> THEN <<>> ELSE Head(ss) \o Join(Tail(ss))

(* iteration over a set of CharType: list(char_types) *)
ListOf(order, types) == SelectSeq(order, LAMBDA ct : ct \in types)

(* ''.join(ct.chars for ct in char_types), line 124 *)
BuildPoolAll(order, types) == Join([n \in 1..Len(order) |-> chars(order[n])])

BuildPool(order, types) ==
  LET l == ListOf(order, types)
  IN  Join([n \in 1..Len(l) |-> chars(l[n])])

(* random._randbelow(n) on the stream entry v: a value in 0..n-1 *)
randbelow(n, v) == (v * (n - 1)) \div TapeLen

(* secrets.choice(seq) *)
choice(seq, v) == seq[randbelow(Len(seq), v) + 1]

(* the two messages of ValueError, lines 113 and 116-119 *)
MsgNoTypes == "Mindestens ein Zeichentyp muss ausgewaehlt werden"

MsgLength == "Laenge muss zwischen 8 und 100 liegen"

MsgRandom == "RandomSourceFailure"

(* lines 112-119: the message of the ValueError raised, None if none *)
ValidateLengthFirst(l, types) ==
  IF ~(MIN_LENGTH <= l /\ l <= MAX_LENGTH) THEN MsgLength
  ELSE IF types = {} THEN MsgNoTypes
  ELSE None

ValidateStrict(l, types) ==
  IF types = {} THEN MsgNoTypes
  ELSE IF ~(MIN_LENGTH < l /\ l < MAX_LENGTH) THEN MsgLength
  ELSE None

Validate(l, types) ==
  IF types = {} THEN MsgNoTypes
  ELSE IF ~(MIN_LENGTH <= l /\ l <= MAX_LENGTH) THEN MsgLength
  ELSE None

(* line 133 *)
RemainingShort(l, pw) == l - Len(pw) - 1

Remaining(l, pw) == l - Len(pw)

(* x[i], x[j] = x[j], x[i] of random.shuffle, 0-based i and j *)
Exchange(x, a, b) == [x EXCEPT ![a + 1] = x[b + 1], ![b + 1] = x[a + 1]]

(* the generator behind secrets.choice and behind the shuffle *)
ChoiceSource == "SystemRandom"

ShuffleSourceMT == "random.Random"

ShuffleSource == "SystemRandom"

(***************************************************************************)
(* PasswordGenerator.generate, lines 97-140.                               *)
(***************************************************************************)
NoCache == [key \in {} |-> <<>>]

(* no string has been scored *)
NoMemo == [t \in {} |-> <<>>]

(* no thread runs generate *)
NoThreads == <<>>

(* line 91 *)
DEFAULT_LENGTH == 16

DISABLED == "disabled"

NORMAL == "normal"

(* lines 571-649: every checkbox but the one of WHITESPACE starts set *)
DefaultTypes == CharType \ {"WHITESPACE"}

(* lines 387-417: the widgets as _create_widgets builds them *)
NewWidgets ==
  /\ length_var' = DEFAULT_LENGTH
  /\ char_vars' = DefaultTypes
  /\ password_text' = <<>>
  /\ copy_button' = DISABLED
  /\ save_button' = DISABLED
  /\ clear_button' = DISABLED
  /\ stats_label' = 0

(* lines 345-354: the window after PasswordGeneratorGUI.__init__ *)
GuiInit ==
  /\ length_var = DEFAULT_LENGTH
  /\ char_vars = DefaultTypes
  /\ password_history = <<>>
  /\ current_password = None
  /\ password_text = <<>>
  /\ copy_button = DISABLED
  /\ save_button = DISABLED
  /\ clear_button = DISABLED
  /\ stats_label = 0
  /\ theme = "dark"
  /\ now = 1
  /\ file = None
  /\ event = "init"
  /\ preset = None
  /\ log = <<>>
  /\ hidden_saves = 0

(* no call of generate has been made *)
GenIdle ==
  /\ hashOrder \in HashOrders
  /\ cache = NoCache
  /\ pc = "idle"
  /\ length = 0
  /\ char_types = {}
  /\ char_pool = <<>>
  /\ char_types_list = <<>>
  /\ password = <<>>
  /\ remaining = 0
  /\ filled = 0
  /\ i = 0
  /\ result = None
  /\ error = None
  /\ urandom = [n \in 1..TapeLen |-> 0]
  /\ rpos = 1
  /\ draws = 0
  /\ failed = FALSE
  /\ sources = {}
  /\ drawn = <<>>
  /\ threads = NoThreads
  /\ GuiInit

(* no call of calculate_strength has been made *)
ScoreIdle ==
  /\ text = <<>>
  /\ scored = None
  /\ entropy = None
  /\ charset_size = 0
  /\ memo = NoMemo

Init == GenIdle /\ ScoreIdle

(* the frame of generate is gone: its locals hold nothing *)
DropLocals ==
  /\ char_pool' = <<>>
  /\ char_types_list' = <<>>
  /\ password' = <<>>
  /\ remaining' = 0
  /\ filled' = 0
  /\ i' = 0

NextPos == (rpos % TapeLen) + 1

(* lines 112-127: the call, its validation, the pool and the type list *)
Enter(l, types, tape) ==
  /\ length' = l
  /\ char_types' = types
  /\ urandom' = tape
  /\ rpos' = 1
  /\ failed' = FALSE
  /\ sources' = {}
  /\ result' = None
  /\ drawn' = <<>>
  /\ UNCHANGED <<scorevars, threads, guivars>>

Reject(msg) ==
  /\ error' = msg
  /\ pc' = "raised"
  /\ DropLocals
  /\ UNCHANGED cache

(* a generate whose cache is not keyed: it hands out an entry it holds,    *)
(* whatever set the entry was built for                                    *)
PrepareAnyEntry(types) ==
  /\ error' = None
  /\ cache' = IF cache # NoCache
              THEN cache
              ELSE [key \in {types} |-> BuildPool(hashOrder', types)]
  /\ char_pool' = cache'[CHOOSE key \in DOMAIN cache' : TRUE]
  /\ char_types_list' = ListOf(hashOrder', types)
  /\ password' = <<>>
  /\ pc' = "cover"
  /\ UNCHANGED <<remaining, filled, i>>

Prepare(types) ==
  /\ error' = None
  /\ cache' = IF types \in DOMAIN cache
              THEN cache
              ELSE [key \in DOMAIN cache \cup {types} |->
                      IF key = types THEN BuildPool(hashOrder', types)
                      ELSE cache[key]]
  /\ char_pool' = cache'[types]
  /\ char_types_list' = ListOf(hashOrder', types)
  /\ password' = <<>>
  /\ pc' = "cover"
  /\ UNCHANGED <<remaining, filled, i>>

(* a generate that makes its first coverage draw before it validates *)
CallDrawsFirst ==
  /\ pc = "idle"
  /\ \E l \in LengthInputs, types \in SUBSET CharType, tape \in Tapes :
       /\ Enter(l, types, tape)
       /\ UNCHANGED hashOrder
       /\ draws' = 1
       /\ IF Validate(l, types) # None
          THEN Reject(Validate(l, types))
          ELSE Prepare(types)

Call ==
  /\ pc = "idle"
  /\ \E l \in LengthInputs, types \in SUBSET CharType, tape \in Tapes :
       /\ Enter(l, types, tape)
       /\ UNCHANGED hashOrder
       /\ draws' = 0
       /\ IF Validate(l, types) # None
          THEN Reject(Validate(l, types))
          ELSE Prepare(types)

(* one successful read of a generator *)
Read(source) ==
  /\ rpos' = NextPos
  /\ draws' = draws + 1
  /\ sources' = sources \cup {source}
  /\ UNCHANGED <<hashOrder, cache, length, char_types, char_pool,
                 char_types_list, result, error, urandom, failed, scorevars,
                 threads, guivars>>

(* a generate that returns the list as drawn, without line 138 *)
ToShuffleSkipped(pw) ==
  /\ pc' = "shuffle"
  /\ i' = 0
  /\ drawn' = pw

(* line 138 is reached with the list pw *)
ToShuffle(pw) ==
  /\ pc' = "shuffle"
  /\ i' = Len(pw) - 1
  /\ drawn' = pw

(* line 130: secrets.choice(ct.chars) *)
CoverCharFromPool(ct, pool, v) == choice(pool, v)

CoverChar(ct, pool, v) == choice(chars(ct), v)

(* line 130, one item of the comprehension; after the last one, 133-134 *)
CoverDraw ==
  /\ pc = "cover"
  /\ LET ct == char_types_list[Len(password) + 1]
         pw == Append(password, CoverChar(ct, char_pool, urandom[rpos]))
         r  == Remaining(length, pw)
     IN  /\ password' = pw
         /\ Read(ChoiceSource)
         /\ IF Len(pw) < Len(char_types_list)
            THEN /\ pc' = "cover"
                 /\ UNCHANGED <<remaining, filled, i, drawn>>
            ELSE /\ remaining' = r
                 /\ filled' = 0
                 /\ IF r > 0
                    THEN pc' = "fill" /\ UNCHANGED <<i, drawn>>
                    ELSE ToShuffle(pw)

(* line 135, one item of the generator handed to extend *)
FillDraw ==
  /\ pc = "fill"
  /\ LET pw == Append(password, choice(char_pool, urandom[rpos]))
     IN  /\ password' = pw
         /\ Read(ChoiceSource)
         /\ filled' = filled + 1
         /\ UNCHANGED remaining
         /\ IF filled + 1 < remaining
            THEN pc' = "fill" /\ UNCHANGED <<i, drawn>>
            ELSE ToShuffle(pw)

(* the indices random.shuffle may exchange position i with *)
ShuffleIndicesSattolo(n) == 0..(n - 1)

ShuffleIndices(n) == 0..n

(* line 138, one round of random.shuffle:                                  *)
(*   for i in reversed(range(1, len(x))): j = randbelow(i + 1); swap       *)
ShuffleWith(j) ==
  /\ pc = "shuffle"
  /\ i >= 1
  /\ j \in ShuffleIndices(i)
  /\ password' = Exchange(password, i, j)
  /\ i' = i - 1
  /\ draws' = draws + 1
  /\ sources' = sources \cup {ShuffleSource}
  /\ UNCHANGED <<hashOrder, cache, pc, length, char_types, char_pool,
                 char_types_list, remaining, filled, result, error, urandom,
                 failed, drawn, scorevars,
                 threads, guivars>>

ShuffleStep ==
  /\ ShuffleWith(randbelow(i + 1, urandom[rpos]))
  /\ rpos' = NextPos

(* line 140 *)
Return ==
  /\ pc = "shuffle"
  /\ i < 1
  /\ result' = password
  /\ pc' = "done"
  /\ DropLocals
  /\ UNCHANGED <<hashOrder, cache, length, char_types, error, urandom, rpos,
                 draws, failed, sources, drawn, scorevars,
                 threads, guivars>>

(* a read of the random source raises inside lines 130, 135 or 138 *)
Pending ==
  \/ pc \in {"cover", "fill"}
  \/ pc = "shuffle" /\ i >= 1

(* a generate that catches the exception and returns what it has *)
DrawFailsReturnsPartial ==
  /\ Pending
  /\ failed' = TRUE
  /\ draws' = draws + 1
  /\ result' = password
  /\ pc' = "done"
  /\ DropLocals
  /\ UNCHANGED <<hashOrder, cache, length, char_types, error, urandom, rpos,
                 sources, drawn, scorevars, threads, guivars>>

(* generate has no handler: the exception leaves the call *)
DrawFails ==
  /\ Pending
  /\ failed' = TRUE
  /\ draws' = draws + 1
  /\ error' = MsgRandom
  /\ pc' = "raised"
  /\ DropLocals
  /\ UNCHANGED <<hashOrder, cache, length, char_types, result, urandom, rpos,
                 sources, drawn, scorevars, threads, guivars>>

Next ==
  \/ Call
  \/ CoverDraw
  \/ FillDraw
  \/ ShuffleStep
  \/ Return
  \/ DrawFails

Spec == Init /\ [][Next]_vars

(***************************************************************************)
(* Properties of generate, checked under Spec.                             *)
(***************************************************************************)
InRange(l) == MIN_LENGTH <= l /\ l <= MAX_LENGTH

Returned == pc = "done"

CharsOf(types) == UNION {Range(chars(ct)) : ct \in types}

(* C1: every string generate returns has exactly `length` characters, for  *)
(* every accepted length and category set and every outcome of the draws.  *)
C1_ExactLength ==
  Returned => /\ result # None
              /\ Len(result) = length
              /\ InRange(length)
              /\ char_types # {}

C1_Witness ==
  /\ Returned
  /\ length = MIN_LENGTH + 1
  /\ Len(result) = MIN_LENGTH + 1
  /\ Cardinality(char_types) = 3

(* C2: coverage guarantee: the returned string holds at least one member   *)
(* character of each requested category.                                   *)
C2_Coverage ==
  Returned =>
    \A ct \in char_types :
      \E n \in 1..Len(result) : result[n] \in Range(chars(ct))

C2_Witness ==
  /\ Returned
  /\ char_types = CharType
  /\ length = MIN_LENGTH
  /\ \A ct \in CharType :
       \E n \in 1..Len(result) : result[n] \in Range(chars(ct))

(* C3: every character of the returned string is a member of one of the    *)
(* requested categories; a digits-only request returns digits only.        *)
C3_PoolMembership ==
  Returned =>
    \A n \in 1..Len(result) : result[n] \in CharsOf(char_types)

C3_Witness ==
  /\ Returned
  /\ char_types = {"DIGITS"}
  /\ length = MIN_LENGTH
  /\ Len(result) = MIN_LENGTH
  /\ \A n \in 1..Len(result) : result[n] \in Range(digits)
  /\ \E n \in 1..Len(result) : result[n] # result[1]

(* C4: with a non-empty category set, generate raises the length error for *)
(* every length below MIN_LENGTH or above MAX_LENGTH, and raises no        *)
(* ValueError for a length in MIN_LENGTH..MAX_LENGTH, both limits included: *)
(* such a call ends only by returning a password (or by a failure of the   *)
(* random source), and until it has ended a next step towards the return   *)
(* is possible and fewer than 2 * length - 1 reads have been made.         *)
Running == pc \in {"cover", "fill", "shuffle"}

C4_LengthBounds ==
  (pc # "idle" /\ char_types # {}) =>
    /\ ~InRange(length) => (pc = "raised" /\ error = MsgLength /\ result = None)
    /\ InRange(length) =>
         /\ error \notin {MsgLength, MsgNoTypes}
         /\ pc = "raised" => failed
         /\ Returned => result # None
         /\ Running => /\ ENABLED (CoverDraw \/ FillDraw \/ ShuffleStep \/ Return)
                       /\ draws <= 2 * length - 1
                       /\ ENABLED Return => draws = 2 * length - 1

C4_Witness ==
  /\ Returned
  /\ length = MAX_LENGTH
  /\ Len(result) = MAX_LENGTH
  /\ char_types # {}

(* C5: an empty category set is rejected for every length, with the        *)
(* empty-set message also when the length is out of range; the length      *)
(* message is raised only for a non-empty set and a length out of range.   *)
C5_EmptyTypes ==
  pc # "idle" =>
    /\ char_types = {} => (pc = "raised" /\ error = MsgNoTypes /\ result = None)
    /\ error = MsgNoTypes => char_types = {}
    /\ error = MsgLength => (char_types # {} /\ ~InRange(length))
    /\ MsgNoTypes # MsgLength

C5_Witness ==
  /\ pc = "raised"
  /\ char_types = {}
  /\ length = MAX_LENGTH + 1
  /\ error = MsgNoTypes

(* C6: a rejected call has read no random source: the rejection comes      *)
(* before the first draw.                                                  *)
C6_NoDrawOnReject ==
  error \in {MsgNoTypes, MsgLength} =>
    /\ pc = "raised"
    /\ draws = 0
    /\ rpos = 1
    /\ sources = {}

C6_Witness ==
  /\ pc = "raised"
  /\ error = MsgLength
  /\ length = MIN_LENGTH - 1
  /\ char_types = {"DIGITS"}
  /\ draws = 0

(* C7: once the random source has failed, the call has ended in an error:  *)
(* no password is returned, not even a partial one, no further draw is     *)
(* made (no retry) and no other generator is read (no fallback).           *)
C7_FailureIsFatal ==
  failed =>
    /\ pc = "raised"
    /\ result = None
    /\ error = MsgRandom
    /\ sources \subseteq {"SystemRandom"}

C7_Witness ==
  /\ failed
  /\ pc = "raised"
  /\ InRange(length)
  /\ draws > length + 1

(* C8: every draw of a character and every exchange of the shuffle reads   *)
(* the operating system's generator (SystemRandom), never the seedable     *)
(* random.Random.                                                          *)
C8_SecureSourceOnly ==
  /\ sources \subseteq {"SystemRandom"}
  /\ draws > 0 /\ ~failed => sources = {"SystemRandom"}

C8_Witness ==
  /\ Returned
  /\ draws = 2 * length - 1
  /\ sources = {"SystemRandom"}

(***************************************************************************)
(* The shuffle of line 138 as a function of the list: SpecShuffle starts   *)
(* it on every list of at most DeckLen characters and lets each round take *)
(* any index the generator can return.                                     *)
(***************************************************************************)
DeckLen == 4

DeckChars == {"A", "a", "0", "!"}

ShortDecks == UNION {[1..n -> DeckChars] : n \in 0..DeckLen}

(* the list generate(MIN_LENGTH, types) has drawn when every entry of the   *)
(* stream is 0: the first character of each category, then of the pool     *)
FirstDraws(order, types) ==
  LET l == ListOf(order, types)
  IN  [n \in 1..MIN_LENGTH |->
         IF n <= Len(l) THEN CoverChar(l[n], BuildPool(order, types), 0)
         ELSE choice(BuildPool(order, types), 0)]

Decks ==
  ShortDecks \cup
  {FirstDraws(o, t) : o \in HashOrders,
                      t \in {CharType, {"DIGITS", "WHITESPACE"}}}

InitShuffle ==
  /\ hashOrder = CharTypeMembers
  /\ cache = NoCache
  /\ pc = "shuffle"
  /\ password \in Decks
  /\ drawn = password
  /\ i = Len(password) - 1
  /\ length = Len(password)
  /\ char_types = {}
  /\ char_pool = <<>>
  /\ char_types_list = <<>>
  /\ remaining = 0
  /\ filled = 0
  /\ result = None
  /\ error = None
  /\ urandom = [n \in 1..TapeLen |-> 0]
  /\ rpos = 1
  /\ draws = 0
  /\ failed = FALSE
  /\ sources = {}
  /\ threads = NoThreads
  /\ GuiInit
  /\ ScoreIdle

ShuffleAny ==
  /\ \E j \in 0..i : ShuffleWith(j)
  /\ UNCHANGED rpos

NextShuffle ==
  \/ ShuffleAny
  \/ Return

SpecShuffle == InitShuffle /\ [][NextShuffle]_vars

(* every list random.shuffle can leave, from round n down to round 1 *)
RECURSIVE ShuffleOutcomes(_, _)
ShuffleOutcomes(x, n) ==
  IF n < 1 THEN {x}
  ELSE UNION {ShuffleOutcomes(Exchange(x, n, j), n - 1) :
                j \in ShuffleIndices(n)}

(* the orderings of a list *)
Orderings(x) ==
  {[n \in 1..Len(x) |-> x[f[n]]] : f \in Permutations(1..Len(x))}

Count(x, c) == Cardinality({n \in 1..Len(x) : x[n] = c})

(* a and b hold the same characters, each as often *)
IsOrdering(a, b) ==
  /\ Len(a) = Len(b)
  /\ \A c \in Range(a) \cup Range(b) : Count(a, c) = Count(b, c)

ShuffleBegins == pc = "shuffle" /\ i = Len(drawn) - 1 /\ password = drawn

(* C9: the returned string is an ordering of the drawn list (nothing is    *)
(* added, dropped or changed), every ordering of the drawn list is a       *)
(* possible result, and the character drawn at any position can end at     *)
(* any index.                                                              *)
C9_ShuffleIsAnyPermutation ==
  /\ Returned => IsOrdering(result, drawn)
  /\ pc = "shuffle" => IsOrdering(password, drawn)
  /\ ShuffleBegins =>
       LET outcomes == ShuffleOutcomes(drawn, Len(drawn) - 1)
       IN  /\ outcomes = Orderings(drawn)
           /\ \A p \in 1..Len(drawn), q \in 1..Len(drawn) :
                \E o \in outcomes : o[q] = drawn[p]

(* the space drawn fifth, for the last category, is returned last *)
C9_Witness ==
  /\ Returned
  /\ drawn = FirstDraws(CharTypeMembers, CharType)
  /\ drawn[5] = " "
  /\ result[MIN_LENGTH] = " "
  /\ result[1] = drawn[2]

(***************************************************************************)
(* PasswordGenerator.calculate_strength, lines 183-222.                    *)
(***************************************************************************)
_UPPERCASE_SET == Range(ascii_uppercase)

_LOWERCASE_SET == Range(ascii_lowercase)

_DIGIT_SET == Range(digits)

_PUNCTUATION_SET == Range(punctuation)

(* line 201 *)
LengthScoreUncapped(n) == n * 2

LengthScoreCap50(n) == Min(n * 2, 50)

LengthScore(n) == Min(n * 2, 40)

(* lines 205-212: 15 for a class with a character in the password *)
ClassScoreTen(password_set, class) ==
  IF password_set \cap class # {} THEN 10 ELSE 0

ClassScore(password_set, class) ==
  IF password_set \cap class # {} THEN 15 ELSE 0

(* lines 215-222 *)
DescribeStrict(strength) ==
  IF strength > 80 THEN "Sehr stark"
  ELSE IF strength > 60 THEN "Stark"
  ELSE IF strength > 40 THEN "Mittel"
  ELSE "Schwach"

Describe(strength) ==
  IF strength >= 80 THEN "Sehr stark"
  ELSE IF strength >= 60 THEN "Stark"
  ELSE IF strength >= 40 THEN "Mittel"
  ELSE "Schwach"

calculate_strength(pw) ==
  IF pw = <<>> THEN <<0, "Kein Passwort">>
  ELSE LET password_set == Range(pw)
           strength == LengthScore(Len(pw))
                       + ClassScore(password_set, _UPPERCASE_SET)
                       + ClassScore(password_set, _LOWERCASE_SET)
                       + ClassScore(password_set, _DIGIT_SET)
                       + ClassScore(password_set, _PUNCTUATION_SET)
       IN  <<strength, Describe(strength)>>

(***************************************************************************)
(* SpecScore: calculate_strength on every text made of a core of at most   *)
(* CoreLen sample characters (one of each class, a space, a newline)       *)
(* followed by at most PadMax newlines, and on two texts written out.      *)
(***************************************************************************)
CoreLen == 4

PadMax == 20

SampleChars == {"A", "a", "0", "!", " ", "\n"}

(* "Ab1!Ab1!Ab1!Ab1!" *)
TextAb1 ==
  <<"A", "b", "1", "!", "A", "b", "1", "!",
    "A", "b", "1", "!", "A", "b", "1", "!">>

(* "aaaa" *)
TextAaaa == <<"a", "a", "a", "a">>

TextInputs ==
  {core \o [n \in 1..pad |-> "\n"] :
     core \in UNION {[1..n -> SampleChars] : n \in 0..CoreLen},
     pad \in 0..PadMax}
  \cup {TextAb1, TextAaaa}

InitScore ==
  /\ GenIdle
  /\ text \in TextInputs
  /\ scored = None
  /\ entropy = None
  /\ charset_size = 0
  /\ memo = NoMemo

Score ==
  /\ scored = None
  /\ scored' = calculate_strength(text)
  /\ UNCHANGED <<genvars, guivars, text, entropy, charset_size, memo>>

NextScore == Score

SpecScore == InitScore /\ [][NextScore]_vars

ScoredClasses ==
  {Range(ascii_uppercase), Range(ascii_lowercase), Range(digits),
   Range(punctuation)}

(* C10: for a non-empty text the score is min(2 * length, 40) plus 15 for  *)
(* each of the classes uppercase, lowercase, digit, punctuation that has a *)
(* character in the text; spaces and other characters count for the length *)
(* only; the empty text scores 0 with the label "Kein Passwort".           *)
C10_StrengthScore ==
  scored # None =>
    IF Len(text) = 0
    THEN scored = <<0, "Kein Passwort">>
    ELSE /\ scored[1] = Min(2 * Len(text), 40)
              + 15 * Cardinality({c \in ScoredClasses : Range(text) \cap c # {}})
         /\ Range(text) \subseteq {" ", "\n"} => scored[1] = Min(2 * Len(text), 40)
         /\ scored[2] # "Kein Passwort"

C10_Witness ==
  /\ scored # None
  /\ Len(text) > 20
  /\ " " \in Range(text)
  /\ "a" \in Range(text)
  /\ "0" \in Range(text)
  /\ scored[1] = 40 + 15 + 15

(* C11: for a non-empty text the label follows from the score alone:       *)
(* below 40 "Schwach" (weak), 40 to 59 "Mittel" (medium), 60 to 79 "Stark" *)
(* (strong), 80 and above "Sehr stark" (very strong); the scores 40, 60    *)
(* and 80 fall in the higher band.                                         *)
C11_LabelBands ==
  (scored # None /\ Len(text) > 0) =>
    /\ scored[1] < 40 <=> scored[2] = "Schwach"
    /\ (40 <= scored[1] /\ scored[1] < 60) <=> scored[2] = "Mittel"
    /\ (60 <= scored[1] /\ scored[1] < 80) <=> scored[2] = "Stark"
    /\ scored[1] >= 80 <=> scored[2] = "Sehr stark"

C11_Witness ==
  /\ scored # None
  /\ Len(text) > 0
  /\ scored = <<60, "Stark">>

(* C12 as stated: the text "Ab1!Ab1!Ab1!Ab1!" scores (100, very strong).   *)
C12_ScoresHundred ==
  (scored # None /\ text = TextAb1) => scored = <<100, "Sehr stark">>

(* C12, amended: the text "Ab1!Ab1!Ab1!Ab1!" (16 characters, all four      *)
(* classes) scores (92, very strong): min(32, 40) + 4 * 15.                *)
C12_ScoresNinetyTwo ==
  (scored # None /\ text = TextAb1) => scored = <<92, "Sehr stark">>

C12_Witness ==
  /\ text = TextAb1
  /\ Len(text) = 16
  /\ scored # None
  /\ scored[1] = 92

AllFourClasses(t) == \A c \in ScoredClasses : Range(t) \cap c # {}

(* C13: the score is an integer in 0..100, and it is 100 exactly when the  *)
(* text has at least 20 characters and holds all four scored classes.      *)
C13_ScoreRange ==
  scored # None =>
    /\ scored[1] \in 0..100
    /\ scored[1] = 100 <=> (Len(text) >= 20 /\ AllFourClasses(text))

C13_Witness ==
  /\ scored # None
  /\ Len(text) = 20
  /\ AllFourClasses(text)
  /\ scored[1] = 100

(***************************************************************************)
(* PasswordGenerator.calculate_entropy, lines 148-181. A float is held in  *)
(* hundredths (18.8 is 1880), and math.log2 in millionths, for the         *)
(* alphabet sizes the five classes can add up to.                          *)
(***************************************************************************)
Log2Micro(n) ==
  CASE n = 1  -> 0
    [] n = 10 -> 3321928 [] n = 11 -> 3459432 [] n = 26 -> 4700440
    [] n = 27 -> 4754888 [] n = 32 -> 5000000 [] n = 33 -> 5044394
    [] n = 36 -> 5169925 [] n = 37 -> 5209453 [] n = 42 -> 5392317
    [] n = 43 -> 5426265 [] n = 52 -> 5700440 [] n = 53 -> 5727920
    [] n = 58 -> 5857981 [] n = 59 -> 5882643 [] n = 62 -> 5954196
    [] n = 63 -> 5977280 [] n = 68 -> 6087463 [] n = 69 -> 6108524
    [] n = 84 -> 6392317 [] n = 85 -> 6409391 [] n = 94 -> 6554589
    [] n = 95 -> 6569856

(* round(x, 2) of a non-negative x given in millionths, in hundredths *)
Truncate2(micro) == micro \div 10000

Round2(micro) == (micro + 5000) \div 10000

(* lines 163-175 *)
CharsetSizeNoSpace(password_set) ==
    (IF password_set \cap _LOWERCASE_SET # {} THEN 26 ELSE 0)
  + (IF password_set \cap _UPPERCASE_SET # {} THEN 26 ELSE 0)
  + (IF password_set \cap _DIGIT_SET # {} THEN 10 ELSE 0)
  + (IF password_set \cap _PUNCTUATION_SET # {} THEN Len(punctuation) ELSE 0)

CharsetSize(password_set) ==
    (IF password_set \cap _LOWERCASE_SET # {} THEN 26 ELSE 0)
  + (IF password_set \cap _UPPERCASE_SET # {} THEN 26 ELSE 0)
  + (IF password_set \cap _DIGIT_SET # {} THEN 10 ELSE 0)
  + (IF password_set \cap _PUNCTUATION_SET # {} THEN Len(punctuation) ELSE 0)
  + (IF " " \in password_set THEN 1 ELSE 0)

(* lines 159-181: <<the value returned, the local charset_size>> *)
calculate_entropy(pw) ==
  IF pw = <<>> THEN <<0, 0>>
  ELSE LET size == CharsetSize(Range(pw))
       IN  IF size > 0
           THEN <<Round2(Len(pw) * Log2Micro(size)), size>>
           ELSE <<0, size>>

(***************************************************************************)
(* SpecEntropy: calculate_entropy on the texts of SpecScore.               *)
(***************************************************************************)
InitEntropy == InitScore

Entropy ==
  /\ entropy = None
  /\ entropy' = <<calculate_entropy(text)[1]>>
  /\ charset_size' = calculate_entropy(text)[2]
  /\ UNCHANGED <<genvars, guivars, text, scored, memo>>

NextEntropy == Entropy

SpecEntropy == InitEntropy /\ [][NextEntropy]_vars

(* the classes of section 4.2 with the size each adds *)
EntropyClasses ==
  {<<Range(ascii_lowercase), 26>>, <<Range(ascii_uppercase), 26>>,
   <<Range(digits), 10>>, <<Range(punctuation), Cardinality(Range(punctuation))>>,
   <<{" "}, 1>>}

ClassesIn(t) == {c \in EntropyClasses : Range(t) \cap c[1] # {}}

RECURSIVE SumSizes(_)
SumSizes(cs) ==
  IF cs = {} THEN 0
  ELSE LET c == CHOOSE x \in cs : TRUE IN c[2] + SumSizes(cs \ {c})

(* C14: the alphabet size is the sum, over the five classes with a         *)
(* character in the text, of 26, 26, 10, the size of the punctuation set   *)
(* and 1; a digits-only text gives 10 whatever its length.                 *)
C14_AlphabetSize ==
  (entropy # None /\ Len(text) > 0) =>
    /\ charset_size = SumSizes(ClassesIn(text))
    /\ (Range(text) \subseteq Range(digits)) => charset_size = 10

C14_Witness ==
  /\ entropy # None
  /\ " " \in Range(text)
  /\ "!" \in Range(text)
  /\ "\n" \in Range(text)
  /\ Len(text) > 10
  /\ charset_size = 32 + 1

Abs(x) == IF x < 0 THEN -x ELSE x

(* C15: the value returned is length * log2(alphabet size) rounded to two  *)
(* decimals (within half a hundredth of it), 18.80 for "aaaa"; it is 0.0   *)
(* for the empty text and for a text whose alphabet size is 0, and never   *)
(* negative.                                                               *)
C15_EntropyValue ==
  entropy # None =>
    /\ entropy[1] >= 0
    /\ (Len(text) = 0 \/ SumSizes(ClassesIn(text)) = 0) => entropy[1] = 0
    /\ (Len(text) > 0 /\ SumSizes(ClassesIn(text)) > 0) =>
         /\ 2 * (entropy[1] * 10000
                 - Len(text) * Log2Micro(SumSizes(ClassesIn(text)))) <= 10000
         /\ 2 * (Len(text) * Log2Micro(SumSizes(ClassesIn(text)))
                 - entropy[1] * 10000) < 10000
    /\ text = TextAaaa => entropy[1] = 1880

C15_Witness ==
  /\ text = TextAaaa
  /\ entropy # None
  /\ entropy[1] = 1880
  /\ charset_size = 26

(***************************************************************************)
(* The order of the steps of generate, checked under Spec.                 *)
(***************************************************************************)
NumTypes == Cardinality(char_types)

(* pw2 is pw with one character of the set added at its end *)
Appended(pw, pw2, set) ==
  /\ Len(pw2) = Len(pw) + 1
  /\ pw2 = Append(pw, pw2[Len(pw2)])
  /\ pw2[Len(pw2)] \in set

StepInvariant ==
  /\ pc = "cover" =>
       /\ Len(char_types_list) = NumTypes
       /\ Range(char_types_list) = char_types
       /\ Len(password) < NumTypes
       /\ draws = Len(password)
  /\ pc = "fill" =>
       /\ NumTypes <= Len(password)
       /\ Len(password) < length
       /\ draws = Len(password)
       /\ remaining = length - NumTypes
       /\ filled = Len(password) - NumTypes
  /\ pc = "shuffle" =>
       /\ Len(drawn) = length
       /\ Len(password) = length
       /\ draws = length + (length - 1 - i)
       /\ i >= 0
  /\ Returned =>
       /\ Len(drawn) = length
       /\ draws = length + (length - 1)
  /\ Running =>
       ENABLED (CoverDraw \/ FillDraw \/ ShuffleStep \/ Return)

StepOrder ==
  /\ pc = "cover" => pc' \in {"cover", "fill", "raised"}
  /\ pc = "fill" => pc' \in {"fill", "shuffle", "raised"}
  /\ pc = "shuffle" => pc' \in {"shuffle", "done", "raised"}
  /\ pc \in {"done", "raised"} => pc' = pc
  /\ (pc = "cover" /\ pc' # "raised") =>
       Appended(password, password',
                Range(chars(char_types_list[Len(password) + 1])))
  /\ (pc = "fill" /\ pc' # "raised") =>
       Appended(password, password', CharsOf(char_types))
  /\ (pc = "cover" /\ pc' = "fill") => Len(password') = NumTypes
  /\ (pc = "fill" /\ pc' = "shuffle") =>
       (Len(password') = length /\ drawn' = password')
  /\ (pc = "shuffle" /\ pc' = "shuffle") => drawn' = drawn
  /\ (pc = "shuffle" /\ pc' = "done") => (i = 0 /\ result' = password)
  /\ (Running /\ pc' # "done") => draws' = draws + 1

(* C19: a successful call makes first k coverage draws, one per selected   *)
(* category and from that category's own member set, then length - k fill  *)
(* draws from the union pool, then the shuffle, which runs in every        *)
(* successful call after all draws and before the return; it makes exactly *)
(* `length` character draws, and it ends: every step is one more read of   *)
(* at most 2 * length - 1, and a step is possible until the call has ended. *)
C19_StepOrder == []StepInvariant /\ [][StepOrder]_vars

C19_Witness ==
  /\ Returned
  /\ length = MIN_LENGTH
  /\ NumTypes = 5
  /\ draws = 15
  /\ result # drawn

(***************************************************************************)
(* SpecGenEntropy: generate, then calculate_entropy on what it returned.   *)
(***************************************************************************)
EntropyOfResult ==
  /\ Returned
  /\ entropy = None
  /\ text' = result
  /\ entropy' = <<calculate_entropy(result)[1]>>
  /\ charset_size' = calculate_entropy(result)[2]
  /\ UNCHANGED <<genvars, guivars, scored, memo>>

NextGenEntropy ==
  \/ Next
  \/ EntropyOfResult

SpecGenEntropy == Init /\ [][NextGenEntropy]_vars

(* the class of section 4.2 that a category's member set is *)
RequestedSize(types) == SumSizes({<<Range(chars(ct)), Len(chars(ct))>> : ct \in types})

(* C20: in a password returned by generate the classes calculate_entropy   *)
(* finds are exactly the requested categories: the alphabet size is the    *)
(* sum of the sizes of the requested categories and the entropy is         *)
(* length * log2 of that sum, rounded to two decimals, whatever was drawn.  *)
C20_EntropyOfGenerated ==
  (Returned /\ entropy # None) =>
    /\ text = result
    /\ {c[1] : c \in ClassesIn(text)} = {Range(chars(ct)) : ct \in char_types}
    /\ charset_size = RequestedSize(char_types)
    /\ entropy[1] = Round2(length * Log2Micro(RequestedSize(char_types)))

C20_Witness ==
  /\ Returned
  /\ entropy # None
  /\ char_types = {"DIGITS", "WHITESPACE"}
  /\ length = MAX_LENGTH
  /\ charset_size = 11
  /\ entropy[1] = 34594

(***************************************************************************)
(* A session: calls of generate one after another on the class-wide cache, *)
(* with calls of the two scoring functions between them.                   *)
(***************************************************************************)
SessionLengths == {MIN_LENGTH - 1, MIN_LENGTH}

SessionTypes == {{}, {"DIGITS"}, {"UPPERCASE", "DIGITS"}}

(* the streams that always select the first item, or always the last *)
SessionTapes == {[n \in 1..TapeLen |-> 0], [n \in 1..TapeLen |-> TapeLen]}

(* "00000000", which generate can return, and "Ab1!Ab1!Ab1!Ab1!" *)
SessionTexts == {[n \in 1..MIN_LENGTH |-> "0"], TextAb1}

Quiet == pc \in {"idle", "done", "raised"}

(* generate is called again: a new set object with its own iteration order *)
SessionCall ==
  /\ Quiet
  /\ \E l \in SessionLengths, types \in SessionTypes,
        tape \in SessionTapes, order \in HashOrders :
       /\ hashOrder' = order
       /\ Enter(l, types, tape)
       /\ draws' = 0
       /\ IF Validate(l, types) # None
          THEN Reject(Validate(l, types))
          ELSE Prepare(types)

(* where the string t comes from *)
Origin(t) == IF pc = "done" /\ result = t THEN "generated" ELSE "supplied"

(* what the first scoring of t returned, whether t has been scored again, *)
(* and the origins t had when it was scored                                *)
Remember(t, strength, bits) ==
  IF t \notin SessionTexts THEN memo
  ELSE [s \in DOMAIN memo \cup {t} |->
          IF s # t THEN memo[s]
          ELSE IF t \in DOMAIN memo
               THEN [memo[t] EXCEPT !.again = TRUE,
                                    !.origins = @ \cup {Origin(t)}]
               ELSE [strength |-> strength, bits |-> bits,
                     again |-> FALSE, origins |-> {Origin(t)}]]

(* a caller that scores the password generated last, not its argument *)
_update_strength_indicator_last(t) ==
  LET pw == IF pc = "done" THEN result ELSE t
  IN  /\ Quiet
      /\ text' = t
      /\ scored' = calculate_strength(pw)
      /\ entropy' = <<calculate_entropy(pw)[1]>>
      /\ charset_size' = calculate_entropy(pw)[2]
      /\ memo' = Remember(t, scored', entropy')
      /\ UNCHANGED <<genvars, guivars>>

(* lines 1078-1079: both scoring functions are called on the string t *)
_update_strength_indicator(t) ==
  /\ Quiet
  /\ text' = t
  /\ scored' = calculate_strength(t)
  /\ entropy' = <<calculate_entropy(t)[1]>>
  /\ charset_size' = calculate_entropy(t)[2]
  /\ memo' = Remember(t, scored', entropy')
  /\ UNCHANGED <<genvars, guivars>>

(* a string supplied by the caller, or the one generate has returned *)
SessionScore ==
  \/ \E t \in SessionTexts : _update_strength_indicator(t)
  \/ pc = "done" /\ _update_strength_indicator(result)

NextSession ==
  \/ SessionCall
  \/ CoverDraw
  \/ FillDraw
  \/ ShuffleStep
  \/ Return
  \/ DrawFails
  \/ SessionScore

SpecSession == Init /\ [][NextSession]_vars

(* every scoring of a remembered string returns what its first scoring did *)
PureResults ==
  (scored # None /\ text \in DOMAIN memo) =>
    /\ scored = memo[text].strength
    /\ entropy = memo[text].bits

(* a step that scores leaves the cache and all state of generate alone *)
PureFrame == scorevars' # scorevars => UNCHANGED genvars

IsPoolOf(pool, types) ==
  /\ Range(pool) = CharsOf(types)
  /\ Len(pool) = Cardinality(CharsOf(types))

(* an entry holds the characters of its key's categories, each once *)
CacheHoldsOwnSets ==
  \A key \in DOMAIN cache :
    /\ key # {}
    /\ key \subseteq CharType
    /\ IsPoolOf(cache[key], key)

(* the pool read from the cache is an ordering of the pool line 124 would  *)
(* build for this call: a uniform draw from either is the same draw        *)
CacheReadIsRecomputed ==
  Running =>
    /\ char_types \in DOMAIN cache
    /\ char_pool = cache[char_types]
    /\ IsPoolOf(char_pool, char_types)
    /\ IsPoolOf(BuildPool(hashOrder, char_types), char_types)

(* the cache changes only when a valid call misses, by that call's entry *)
CacheStep ==
  /\ (Quiet /\ pc' = "raised") => cache' = cache
  /\ cache' # cache =>
       /\ Quiet
       /\ pc' = "cover"
       /\ char_types' \notin DOMAIN cache
       /\ DOMAIN cache' = DOMAIN cache \cup {char_types'}
       /\ \A key \in DOMAIN cache : cache'[key] = cache[key]
       /\ cache'[char_types'] = BuildPool(hashOrder', char_types')
  /\ (Quiet /\ pc' = "cover" /\ char_types' \in DOMAIN cache) =>
       cache' = cache

(* C18: after any sequence of calls every cache entry holds exactly the    *)
(* characters of its key's categories, a rejected call adds no entry, and  *)
(* the pool a call reads from the cache is an ordering of the pool it      *)
(* would build itself, so that generate without the cache has the same     *)
(* possible results.                                                       *)
C18_CacheIsTransparent ==
  [](CacheHoldsOwnSets /\ CacheReadIsRecomputed) /\ [][CacheStep]_vars

(* a hit on an entry that an earlier call built in the other order, with   *)
(* an entry of another request's set beside it                             *)
C18_Witness ==
  /\ pc = "cover"
  /\ char_types = {"UPPERCASE", "DIGITS"}
  /\ DOMAIN cache = {{"DIGITS"}, {"UPPERCASE", "DIGITS"}}
  /\ char_pool = cache[char_types]
  /\ char_pool # BuildPool(hashOrder, char_types)

(***************************************************************************)
(* Calls of generate in several threads of one interpreter.  A thread may  *)
(* be switched between any two bytecodes: the membership test of line 123, *)
(* the store of line 124 (the join before it builds a string only this     *)
(* thread holds) and the lookup of line 126 are each one operation of the  *)
(* dict, which the interpreter does not interleave with another.           *)
(***************************************************************************)
Threads == {1, 2}

ConcTypes == SessionTypes

MsgKeyError == "KeyError"

(* the frame of a thread that has not called generate *)
IdleFrame ==
  [pc |-> "idle", length |-> 0, char_types |-> {},
   order |-> CharTypeMembers, char_pool |-> <<>>, char_types_list |-> <<>>,
   password |-> <<>>, remaining |-> 0, filled |-> 0, i |-> 0,
   result |-> <<>>, error |-> None, urandom |-> [n \in 1..TapeLen |-> 0],
   rpos |-> 1, built |-> FALSE]

(* the variables of the call made outside the threads *)
mainvars ==
  <<hashOrder, pc, length, char_types, char_pool, char_types_list, password,
    remaining, filled, i, result, error, urandom, rpos, draws, failed,
    sources, drawn>>

InitConc ==
  /\ hashOrder = CharTypeMembers
  /\ cache = NoCache
  /\ pc = "idle"
  /\ length = 0
  /\ char_types = {}
  /\ char_pool = <<>>
  /\ char_types_list = <<>>
  /\ password = <<>>
  /\ remaining = 0
  /\ filled = 0
  /\ i = 0
  /\ result = None
  /\ error = None
  /\ urandom = [n \in 1..TapeLen |-> 0]
  /\ rpos = 1
  /\ draws = 0
  /\ failed = FALSE
  /\ sources = {}
  /\ drawn = <<>>
  /\ threads = [t \in Threads |-> IdleFrame]
  /\ GuiInit
  /\ ScoreIdle

(* thread t moves to the frame f; the cache becomes c *)
Moves(t, f, c) ==
  /\ threads' = [threads EXCEPT ![t] = f]
  /\ cache' = c
  /\ UNCHANGED <<mainvars, scorevars, guivars>>

(* the frame f after its call has raised msg *)
Raised(f, msg) ==
  [f EXCEPT !.pc = "raised", !.error = msg, !.char_pool = <<>>,
            !.char_types_list = <<>>, !.password = <<>>, !.remaining = 0,
            !.filled = 0, !.i = 0]

(* lines 112-122 in thread t *)
ThreadCall(t) ==
  /\ threads[t].pc = "idle"
  /\ \E types \in ConcTypes, tape \in SessionTapes, order \in HashOrders :
       LET f == [IdleFrame EXCEPT !.length = MIN_LENGTH,
                                  !.char_types = types,
                                  !.order = order, !.urandom = tape]
       IN  IF Validate(MIN_LENGTH, types) # None
           THEN Moves(t, Raised(f, Validate(MIN_LENGTH, types)), cache)
           ELSE Moves(t, [f EXCEPT !.pc = "check"], cache)

(* line 123: cache_key not in PasswordGenerator._char_pool_cache *)
ThreadCheck(t) ==
  /\ threads[t].pc = "check"
  /\ Moves(t, [threads[t] EXCEPT !.pc =
                 IF threads[t].char_types \in DOMAIN cache
                 THEN "load" ELSE "store"],
           cache)

(* a dict that keeps the newest entry only *)
StorePoolEvicting(c, key, pool) == [k \in {key} |-> pool]

(* line 124: _char_pool_cache[cache_key] = pool *)
StorePool(c, key, pool) ==
  [k \in DOMAIN c \cup {key} |-> IF k = key THEN pool ELSE c[k]]

(* line 124 in thread t *)
ThreadStore(t) ==
  /\ threads[t].pc = "store"
  /\ Moves(t, [threads[t] EXCEPT !.pc = "load", !.built = TRUE],
           StorePool(cache, threads[t].char_types,
                     BuildPool(threads[t].order, threads[t].char_types)))

(* lines 126-127 in thread t; a missing key raises KeyError *)
ThreadLoad(t) ==
  /\ threads[t].pc = "load"
  /\ LET f == threads[t]
     IN  IF f.char_types \in DOMAIN cache
         THEN Moves(t, [f EXCEPT !.pc = "cover",
                                 !.char_pool = cache[f.char_types],
                                 !.char_types_list =
                                    ListOf(f.order, f.char_types)],
                    cache)
         ELSE Moves(t, Raised(f, MsgKeyError), cache)

(* the frame f after a read of the stream *)
AfterRead(f) == [f EXCEPT !.rpos = (f.rpos % TapeLen) + 1]

(* line 130 in thread t, one item; after the last one, lines 133-134 *)
ThreadCover(t) ==
  /\ threads[t].pc = "cover"
  /\ LET f  == threads[t]
         ct == f.char_types_list[Len(f.password) + 1]
         pw == Append(f.password,
                      CoverChar(ct, f.char_pool, f.urandom[f.rpos]))
         r  == Remaining(f.length, pw)
         g  == [AfterRead(f) EXCEPT !.password = pw]
     IN  IF Len(pw) < Len(f.char_types_list)
         THEN Moves(t, g, cache)
         ELSE IF r > 0
              THEN Moves(t, [g EXCEPT !.pc = "fill", !.remaining = r,
                                      !.filled = 0], cache)
              ELSE Moves(t, [g EXCEPT !.pc = "shuffle", !.remaining = r,
                                      !.filled = 0, !.i = Len(pw) - 1],
                         cache)

(* line 135 in thread t, one item *)
ThreadFill(t) ==
  /\ threads[t].pc = "fill"
  /\ LET f  == threads[t]
         pw == Append(f.password, choice(f.char_pool, f.urandom[f.rpos]))
         g  == [AfterRead(f) EXCEPT !.password = pw,
                                    !.filled = f.filled + 1]
     IN  IF f.filled + 1 < f.remaining
         THEN Moves(t, g, cache)
         ELSE Moves(t, [g EXCEPT !.pc = "shuffle", !.i = Len(pw) - 1],
                    cache)

(* line 138 in thread t, one round of random.shuffle *)
ThreadShuffle(t) ==
  /\ threads[t].pc = "shuffle"
  /\ threads[t].i >= 1
  /\ LET f == threads[t]
         j == randbelow(f.i + 1, f.urandom[f.rpos])
     IN  /\ j \in ShuffleIndices(f.i)
         /\ Moves(t, [AfterRead(f) EXCEPT
                        !.password = Exchange(f.password, f.i, j),
                        !.i = f.i - 1],
                  cache)

(* line 140 in thread t *)
ThreadReturn(t) ==
  /\ threads[t].pc = "shuffle"
  /\ threads[t].i < 1
  /\ Moves(t, [threads[t] EXCEPT
                 !.pc = "done", !.result = threads[t].password,
                 !.char_pool = <<>>, !.char_types_list = <<>>,
                 !.password = <<>>, !.remaining = 0, !.filled = 0],
           cache)

(* a read of the random source raises in thread t *)
ThreadDrawFails(t) ==
  /\ threads[t].pc \in {"cover", "fill"}
       \/ (threads[t].pc = "shuffle" /\ threads[t].i >= 1)
  /\ Moves(t, Raised(threads[t], MsgRandom), cache)

NextConc ==
  \E t \in Threads :
    \/ ThreadCall(t)
    \/ ThreadCheck(t)
    \/ ThreadStore(t)
    \/ ThreadLoad(t)
    \/ ThreadCover(t)
    \/ ThreadFill(t)
    \/ ThreadShuffle(t)
    \/ ThreadReturn(t)
    \/ ThreadDrawFails(t)

SpecConc == InitConc /\ [][NextConc]_vars

(* the thread holds a pool: it has passed line 126 and not yet returned *)
HoldsPool(t) == threads[t].pc \in {"cover", "fill", "shuffle"}

(* the pool thread t reads is whole and is the one of its own request:    *)
(* the characters of its categories, each once, and no other              *)
PoolIsOwn(t) ==
  HoldsPool(t) =>
    IsPoolOf(threads[t].char_pool, threads[t].char_types)

(* the result of thread t has the length, the coverage and the membership *)
(* of its own request                                                      *)
ResultIsOwn(t) ==
  threads[t].pc = "done" =>
    /\ Len(threads[t].result) = threads[t].length
    /\ \A ct \in threads[t].char_types :
         Range(threads[t].result) \cap Range(chars(ct)) # {}
    /\ Range(threads[t].result) \subseteq CharsOf(threads[t].char_types)

(* C17: when calls of generate in several threads interleave on lines      *)
(* 123-126, on the same or on different category sets, no call reads a     *)
(* torn, partial or wrong pool or finds its key missing, the cache holds   *)
(* only whole pools of their keys, and each result has the length, the     *)
(* coverage and the membership of its own request; the worst that happens  *)
(* is that two threads build the pool of one set.                          *)
C17_RaceOnlyRecomputes ==
  /\ \A t \in Threads :
       /\ PoolIsOwn(t)
       /\ ResultIsOwn(t)
       /\ threads[t].error # MsgKeyError
       /\ threads[t].pc \in {"load", "cover", "fill", "shuffle"} =>
            threads[t].char_types \in DOMAIN cache
  /\ \A key \in DOMAIN cache : IsPoolOf(cache[key], key)

(* both threads missed on the same set and both built its pool, in         *)
(* different orders; thread 1 read the pool thread 2 stored; both returned *)
C17_Witness ==
  /\ threads[1].pc = "done"
  /\ threads[2].pc = "done"
  /\ threads[1].built
  /\ threads[2].built
  /\ threads[1].char_types = {"UPPERCASE", "DIGITS"}
  /\ threads[2].char_types = threads[1].char_types
  /\ threads[1].order # threads[2].order
  /\ cache[threads[1].char_types]
       = BuildPool(threads[2].order, threads[2].char_types)
  /\ threads[1].result # threads[2].result

(***************************************************************************)
(* generate as a function of its arguments and of what the random source   *)
(* supplies, for callers that run it to its end in one step.               *)
(***************************************************************************)
(* the n-th entry a call reads from the stream *)
TapeAt(tape, n) == tape[((n - 1) % TapeLen) + 1]

(* lines 130-135: the list before the shuffle *)
Drawn(l, list, pool, tape) ==
  LET k     == Len(list)
      cover == [n \in 1..k |-> CoverChar(list[n], pool, TapeAt(tape, n))]
      r     == Remaining(l, cover)
  IN  cover \o [n \in 1..r |-> choice(pool, TapeAt(tape, k + n))]

(* line 138: the rounds k, k-1, ..., 1 of random.shuffle on the list x;    *)
(* n is the number of the next read                                        *)
RECURSIVE Shuffled(_, _, _, _)
Shuffled(x, k, tape, n) ==
  IF k < 1 THEN x
  ELSE Shuffled(Exchange(x, k, randbelow(k + 1, TapeAt(tape, n))),
                k - 1, tape, n + 1)

(* lines 127-140: what generate returns on the pool it read *)
Generated(l, order, types, pool, tape) ==
  LET x == Drawn(l, ListOf(order, types), pool, tape)
  IN  Shuffled(x, Len(x) - 1, tape, Len(x) + 1)

(* the step by step call returns what the function gives *)
GeneratedAgrees ==
  Returned =>
    result = Generated(length, hashOrder, char_types,
                       BuildPool(hashOrder, char_types), urandom)

(***************************************************************************)
(* The window.  Tk runs one handler at a time, and generate runs to its    *)
(* end inside _generate_password: each handler is one step.                *)
(***************************************************************************)
PresetNames == {"Standard", "Einfach", "Komplex", "PIN", "Passphrase"}

(* PasswordPreset.PRESETS, lines 228-249 *)
PRESETS ==
  [p \in PresetNames |->
     CASE p = "Standard" ->
            [length |-> 16,
             types |-> {"UPPERCASE", "LOWERCASE", "DIGITS", "SPECIAL"}]
       [] p = "Einfach" ->
            [length |-> 12,
             types |-> {"UPPERCASE", "LOWERCASE", "DIGITS"}]
       [] p = "Komplex" ->
            [length |-> 24,
             types |-> {"UPPERCASE", "LOWERCASE", "DIGITS", "SPECIAL"}]
       [] p = "PIN" ->
            [length |-> 6, types |-> {"DIGITS"}]
       [] p = "Passphrase" ->
            [length |-> 20,
             types |-> {"UPPERCASE", "LOWERCASE", "WHITESPACE"}]]

(* line 923: the entries password_history keeps *)
HistoryMax == 10

Max(a, b) == IF a >= b THEN a ELSE b

(* length_var.set(v), line 880.  length_var is the variable of a Scale     *)
(* with from_ = MIN_LENGTH and to = MAX_LENGTH (lines 534-538): the        *)
(* variable keeps v, or the Scale writes back the end of its range         *)
LengthVarSet(v) == {v, Max(MIN_LENGTH, Min(MAX_LENGTH, v))}

(* the stream the source supplies to the calls made from the window *)
GuiTape == [n \in 1..TapeLen |-> 0]

(* a history that drops its newest entry when it is full *)
HistoryAppendDropsNewest(history, entry) ==
  IF Len(history) + 1 > HistoryMax THEN history
  ELSE Append(history, entry)

(* lines 922-924: append, then pop(0) when more than 10 are held *)
HistoryAppend(history, entry) ==
  IF Len(history) + 1 > HistoryMax
  THEN Tail(Append(history, entry))
  ELSE Append(history, entry)

(* lines 876-882 *)
_apply_preset(p) ==
  /\ length_var' \in LengthVarSet(PRESETS[p].length)
  /\ char_vars' = PRESETS[p].types
  /\ preset' = p
  /\ event' = "preset"
  /\ UNCHANGED <<genvars, scorevars, password_history, current_password,
                 password_text, copy_button, save_button, clear_button,
                 stats_label, theme, now, file, log, hidden_saves>>

(* the user clears every checkbox *)
UncheckAll ==
  /\ char_vars # {}
  /\ char_vars' = {}
  /\ preset' = None
  /\ event' = "unchecked"
  /\ UNCHANGED <<genvars, scorevars, length_var, password_history,
                 current_password, password_text, copy_button, save_button,
                 clear_button, stats_label, theme, now, file, log,
                 hidden_saves>>

(* what the handler leaves alone when it shows a message and returns *)
OnlyMessage ==
  UNCHANGED <<scorevars, length_var, char_vars, password_history,
              current_password, password_text, copy_button, save_button,
              clear_button, stats_label, theme, now, file, preset, log,
              hidden_saves>>

(* lines 121-126 inside the call made by the window *)
GuiCache ==
  IF char_vars \in DOMAIN cache THEN cache
  ELSE StorePool(cache, char_vars, BuildPool(hashOrder, char_vars))

(* lines 919-946: generate has returned pw *)
Show(pw) ==
  /\ password_history' = HistoryAppend(password_history, <<pw, now>>)
  /\ log' = Append(log, <<pw, now>>)
  /\ now' = now + 1
  /\ current_password' = pw
  /\ stats_label' = Len(password_history')
  /\ password_text' = pw
  /\ copy_button' = NORMAL
  /\ clear_button' = NORMAL
  /\ save_button' = NORMAL
  /\ text' = pw
  /\ scored' = calculate_strength(pw)
  /\ entropy' = <<calculate_entropy(pw)[1]>>
  /\ charset_size' = calculate_entropy(pw)[2]
  /\ event' = "generated"
  /\ UNCHANGED <<length_var, char_vars, theme, file, preset, hidden_saves,
                 memo>>

(* lines 905-1074; at most cap passwords are generated *)
_generate_password(cap) ==
  /\ UNCHANGED <<hashOrder, pc, length, char_types, char_pool,
                 char_types_list, password, remaining, filled, i, result,
                 error, urandom, rpos, draws, failed, sources, drawn,
                 threads>>
  /\ IF char_vars = {}
     THEN /\ event' = "no types"
          /\ UNCHANGED cache
          /\ OnlyMessage
     ELSE IF Validate(length_var, char_vars) # None
     THEN /\ event' = "invalid input"
          /\ UNCHANGED cache
          /\ OnlyMessage
     ELSE /\ Len(log) < cap
          /\ cache' = GuiCache
          /\ \/ Show(Generated(length_var, hashOrder, char_vars,
                               cache'[char_vars], GuiTape))
             \/ /\ event' = "error"
                /\ OnlyMessage

(* lines 1136-1159, the command of clear_button *)
_clear_password ==
  /\ clear_button = NORMAL
  /\ password_text' = <<>>
  /\ current_password' = None
  /\ copy_button' = DISABLED
  /\ clear_button' = DISABLED
  /\ save_button' = DISABLED
  /\ event' = "cleared"
  /\ UNCHANGED <<genvars, scorevars, length_var, char_vars,
                 password_history, stats_label, theme, now, file, preset,
                 log, hidden_saves>>

(* lines 1161-1192, bound to Control-s and to save_button; a path was      *)
(* chosen and the file was written                                         *)
_save_password ==
  /\ current_password # None
  /\ file' = current_password
  /\ hidden_saves' =
       IF password_text = current_password THEN hidden_saves ELSE 1
  /\ event' = "saved"
  /\ UNCHANGED <<genvars, scorevars, length_var, char_vars,
                 password_history, current_password, password_text,
                 copy_button, save_button, clear_button, stats_label, theme,
                 now, preset, log>>

(* lines 1301-1313: every widget is destroyed and built again *)
_toggle_theme ==
  /\ theme' = IF theme = "dark" THEN "light" ELSE "dark"
  /\ NewWidgets
  /\ preset' = None
  /\ event' = "theme"
  /\ UNCHANGED <<genvars, scorevars, password_history, current_password,
                 now, file, log, hidden_saves>>

(* the passwords generated in a run that tries the presets *)
PresetRuns == 2

PresetClick == \E p \in PresetNames : _apply_preset(p)

GenerateClick == _generate_password(PresetRuns)

NextPresets ==
  \/ PresetClick
  \/ GenerateClick
  \/ _clear_password

SpecPresets == Init /\ [][NextPresets]_vars

(* C21: every preset of PasswordPreset.PRESETS is a valid request: with a  *)
(* preset's settings in force, generating never ends in the invalid-input  *)
(* message, and the password it gives has the preset's length.             *)
C21_PresetsAreValid ==
  preset # None =>
    /\ event # "invalid input"
    /\ event = "generated" =>
         Len(current_password) = PRESETS[preset].length

(* the passwords generated in a session at the window *)
MaxGenerated == 11

StandardClick == _apply_preset("Standard")

GenerateKey == _generate_password(MaxGenerated)

NextGui ==
  \/ StandardClick
  \/ UncheckAll
  \/ GenerateKey
  \/ _clear_password
  \/ _save_password
  \/ _toggle_theme

SpecGui == Init /\ [][NextGui]_vars

Buttons == {copy_button, save_button, clear_button}

(* C22: in every state of the window the copy, save and clear buttons are  *)
(* enabled and a password is displayed exactly when current_password is    *)
(* set, so that a save writes only a password that is displayed.           *)
C22_ButtonsFollowPassword ==
  /\ IF current_password # None
     THEN Buttons = {NORMAL} /\ password_text = current_password
     ELSE Buttons = {DISABLED} /\ password_text = <<>>
  /\ hidden_saves = 0

(* the last n entries of the sequence x *)
LastOf(x, n) == SubSeq(x, Len(x) - n + 1, Len(x))

HistoryIsRecent ==
  /\ Len(password_history) <= HistoryMax
  /\ password_history = LastOf(log, Min(HistoryMax, Len(log)))
  /\ \A n \in 1..Len(log) : log[n][2] = n

(* only a handler that generated a password changes the history *)
HistoryStep ==
  /\ password_history' # password_history => event' = "generated"
  /\ event' = "generated" =>
       /\ Len(log') = Len(log) + 1
       /\ password_history' # password_history

(* C23: password_history holds at most 10 entries, the most recent         *)
(* passwords generated, oldest first; a generation that is rejected or     *)
(* fails, clearing the password and toggling the theme leave it as it is.  *)
C23_HistoryIsLastTen == []HistoryIsRecent /\ [][HistoryStep]_vars

(* eleven passwords were generated: the first is gone, ten are held; the   *)
(* last handler was a generation that was rejected                         *)
C23_Witness ==
  /\ Len(log) = HistoryMax + 1
  /\ Len(password_history) = HistoryMax
  /\ password_history[1] = log[2]
  /\ event = "no types"
  /\ theme = "light"
  /\ current_password = None

(* C24: the footer shows the number of passwords generated so far in the   *)
(* session.                                                                *)
C24_FooterCountsGenerated == stats_label = Len(log)
=============================================================================
